---- MODULE Spec2Model ----
(***************************************************************************)
(* Tab Volume Booster (MV3, offscreen).  A model of the background         *)
(* controller (background.js: volume store, per-tab operation lock,        *)
(* restart and teardown timers, handleVolumeChange) and of the offscreen   *)
(* audio worker (offscreen.js: activeStreams, start/update/stop).          *)
(*                                                                         *)
(* Execution model: one JavaScript thread per context.  A handler runs     *)
(* without interruption up to an await of a browser API (chrome.tabs.get,  *)
(* clients.matchAll, offscreen.createDocument, tabCapture.getMediaStreamId,*)
(* runtime.sendMessage, setTimeout, getUserMedia, AudioContext.resume);    *)
(* each such await is a step boundary.  An await of an async function that *)
(* itself awaits nothing external (saveVolumes(), the debounced            *)
(* closeOffscreenDocumentIfNeeded()) resumes in the same task and is not a *)
(* step boundary.                                                          *)
(***************************************************************************)
EXTENDS Integers, FiniteSets, Sequences, TLC

\* ------------------------------------------------------------------ bounds
\* Concurrent handler activations of the background script.
MaxProcs == 2
\* External inputs (requests, tab events, worker-level client messages).
MaxInputs == 3
\* External inputs in the fair specification.
MaxLiveInputs == 2
\* Teardown checks that may be suspended in hasOffscreenDocument() at once.
MaxCloseChecks == 1

\* --------------------------------------------------------------- constants
DEFAULT_VOLUME == 100

Tabs == {1, 2}
\* Volumes a request may carry: 0 (falsy in JavaScript), the default, a boost.
Volumes == {0, 100, 200}
Procs == 1..MaxProcs

VARIABLES
  tabExists,               \* browser: the tab is open
  removedQ,                \* browser: onRemoved events not yet delivered
  tabVolumes,              \* background.js tabVolumes, a map keyed by tab id
  activeTabOperations,     \* background.js activeTabOperations (the lock set)
  onUpdatedRestartTimers,  \* background.js onUpdatedRestartTimers: tabs with a timer id
  restartTimeouts,         \* browser: pending restart timeouts per tab
  closeOffscreenTimer,     \* a teardown check is scheduled
  closeChecks,             \* teardown checks suspended in hasOffscreenDocument
  saveTimeout,             \* browser: pending persistence-flush timeouts
  persisted,               \* chrome.storage.local: the record under 'tabVolumes'
  offscreenDoc,            \* the offscreen document exists
  activeStreams,           \* offscreen.js activeStreams, keyed by tab id
  orphans,                 \* live pipelines no activeStreams entry refers to
  procs,                   \* handler activations of the background script
  gat,                     \* the GET_ACTIVE_TABS activation
  inputs                   \* external inputs accepted so far

bgVars == <<tabVolumes, activeTabOperations, onUpdatedRestartTimers, restartTimeouts,
            closeOffscreenTimer, closeChecks, saveTimeout>>
workerVars == <<offscreenDoc, activeStreams, orphans>>
envVars == <<tabExists, removedQ, persisted>>
vars == <<tabExists, removedQ, tabVolumes, activeTabOperations,
          onUpdatedRestartTimers, restartTimeouts, closeOffscreenTimer, closeChecks,
          saveTimeout, persisted, offscreenDoc, activeStreams, orphans, procs,
          gat, inputs>>

\* ----------------------------------------------------------------- helpers
\* A map with key k removed (JavaScript delete).
Without(f, k) ==
  [x \in (DOMAIN f) \ {k} |-> f[x]]

\* A map with key k set to v (JavaScript f[k] = v).
With(f, k, v) ==
  [x \in (DOMAIN f) \cup {k} |-> IF x = k THEN v ELSE f[x]]

\* oldVolume as the handlers see it: {} for undefined, {v} otherwise.
Lookup(f, k) ==
  IF k \in DOMAIN f THEN {f[k]} ELSE {}

\* JavaScript truthiness of tabVolumes[t]: undefined and 0 are falsy.
Truthy(f, k) ==
  k \in DOMAIN f /\ f[k] # 0

\* starts counts the startOrUpdateCapture messages of the activation that the
\* worker has received, fallbacks the _startCaptureProcess calls made by
\* _updateCaptureProcess; inTry holds while such a call runs inside the try
\* block of _updateCaptureProcess.  held is the stream and AudioContext of the
\* activation's start call at the worker before they are stored: "live" while
\* the call holds them, "released" once its catch block let go of them.  step
\* is the number of steps a running handleStopCapture call has performed.
\* atLock is tabVolumes[tabId] as it was when the activation took the lock.
FreeProc ==
  [kind |-> "free", pc |-> "none", tab |-> 0, vol |-> 0, old |-> {},
   snap |-> FALSE, ctx |-> "none", msg |-> "none", err |-> "none", starts |-> 0,
   fallbacks |-> 0, inTry |-> FALSE, held |-> "none", step |-> 0, atLock |-> {}]

IdleGat ==
  [pc |-> "idle", pending |-> {}, alive |-> {}, found |-> {}, result |-> <<>>]

HasFree ==
  \E p \in Procs : procs[p].kind = "free"

\* The lowest free slot of pp.
NewSlotOf(pp) ==
  CHOOSE p \in Procs : pp[p].kind = "free"
                       /\ \A q \in Procs : q < p => pp[q].kind # "free"

\* The slot a new activation takes: the lowest free one.
NewSlot ==
  CHOOSE p \in Procs : procs[p].kind = "free"
                       /\ \A q \in Procs : q < p => procs[q].kind # "free"

Init ==
  /\ tabExists = [t \in Tabs |-> TRUE]
  /\ removedQ = {}
  /\ tabVolumes = <<>>
  /\ activeTabOperations = {}
  /\ onUpdatedRestartTimers = {}
  /\ restartTimeouts = [tb \in Tabs |-> 0]
  /\ closeOffscreenTimer = FALSE
  /\ closeChecks = 0
  /\ saveTimeout = 0
  /\ persisted = tabVolumes
  /\ offscreenDoc = FALSE
  /\ activeStreams = <<>>
  /\ orphans = [t \in Tabs |-> 0]
  /\ procs = [p \in Procs |-> FreeProc]
  /\ gat = IdleGat
  /\ inputs = 0

\* ------------------------------------------- background.js: pure decisions
\* tabVolumes[tabId] ?? DEFAULT_VOLUME
VolumeOf(f, t) ==
  IF t \in DOMAIN f THEN f[t] ELSE DEFAULT_VOLUME

\* The volume a GET_VOLUME request for tab t is answered with.
GetVolume(t) ==
  VolumeOf(tabVolumes, t)

\* The comparison with the default left out.
IsCurrentlyCapturing_anyStored(old) ==
  old # {}

\* oldVolume !== undefined && oldVolume !== DEFAULT_VOLUME
IsCurrentlyCapturing(old) ==
  old # {} /\ old # {DEFAULT_VOLUME}

\* newVolume !== DEFAULT_VOLUME
ShouldBeCapturing(v) ==
  v # DEFAULT_VOLUME

\* oldVolume === DEFAULT_VOLUME && shouldBeCapturing
IsForcedRestart(old, v) ==
  old = {DEFAULT_VOLUME} /\ ShouldBeCapturing(v)

\* The case handleVolumeChange dispatches to.
Dispatch(old, v) ==
  IF ~ShouldBeCapturing(v) /\ IsCurrentlyCapturing(old) THEN "stop"
  ELSE IF ShouldBeCapturing(v) /\ (~IsCurrentlyCapturing(old) \/ IsForcedRestart(old, v))
    THEN "start"
  ELSE IF ShouldBeCapturing(v) /\ IsCurrentlyCapturing(old) /\ ~IsForcedRestart(old, v)
    THEN "update"
  ELSE "noop"

\* One lock for all tabs.
LockHeld_global(t) ==
  activeTabOperations # {}

\* The lock check left out.
LockHeld_never(t) ==
  FALSE

\* activeTabOperations.has(tabId)
LockHeld(t) ==
  t \in activeTabOperations

\* Object.values(tabVolumes).some(v => v !== DEFAULT_VOLUME)
NeedsCapture ==
  \E t \in DOMAIN tabVolumes : tabVolumes[t] # DEFAULT_VOLUME

\* The errors a transition can throw, by the text the code gives them:
\*  busy        "Operation busy, please wait."
\*  capture     "Cannot capture tab audio: tabCapture.getMediaStreamId ..."
\*  unavailable "Internal audio processor unavailable for tab N."
\*  audio       "Internal audio processor error (start): Audio setup failed ..."
\*  send        "Internal audio processor error (send): ..."
\*  create      the error of chrome.offscreen.createDocument
Errors == {"busy", "capture", "unavailable", "audio", "send", "create"}

\* error.message.toLowerCase().includes("stop"): none of the texts does.
MentionsStop(e) ==
  FALSE

\* The call sites of _sendStopMessageToOffscreen.
StopSites == {"stop", "forced", "cleanup", "removed"}

\* The answers chrome.tabs.get / getMediaStreamId can give for a call issued
\* while the tab was open (snap) or closed: the answer is as of some moment
\* between the call and its resumption, and a closed tab stays closed.
TabAnswers(pr) ==
  {b \in BOOLEAN : (b => pr.snap) /\ (~b => ~tabExists[pr.tab])}

\* What chrome.runtime.sendMessage to the offscreen document starts as.
Sent ==
  IF offscreenDoc THEN "sent" ELSE "conn"

\* The store written on every path, the failing ones included.
FinishVolumes_always(f, t, v, e) ==
  With(f, t, v)

\* The store left alone when the new volume is the default.
FinishVolumes_skipDefault(f, t, v, e) ==
  IF e = "none" /\ v # DEFAULT_VOLUME THEN With(f, t, v) ELSE f

\* tabVolumes at the end of handleVolumeChange's try/catch: written on the
\* success path only.
FinishVolumes(f, t, v, e) ==
  IF e = "none" THEN With(f, t, v) ELSE f

\* saveVolumes(): clearTimeout(saveTimeout) cancels the timeout scheduled last
\* if it has not fired, then a new one is scheduled.
SaveVolumes(n) ==
  (IF n > 0 THEN n - 1 ELSE 0) + 1

\* Activations of the older background script (the copy that writes the store
\* in its SET_VOLUME handler before it calls handleVolumeChange).
OldKinds == {"oldset", "oldnav"}

\* The .catch of the older SET_VOLUME handler: every error but the busy one
\* puts oldVolume back, or the default when there was none.
RevertVolumes(f, t, old, e) ==
  IF e \in {"none", "busy"} THEN f
  ELSE With(f, t, IF old = {} THEN DEFAULT_VOLUME ELSE CHOOSE v \in old : TRUE)

\* tabVolumes when a handleVolumeChange call has ended and its caller has
\* handled the outcome.  The older handleVolumeChange writes nothing; its
\* SET_VOLUME handler reverts, its timer callback only logs.
EndVolumes(pr, e) ==
  CASE pr.kind = "oldset" -> RevertVolumes(tabVolumes, pr.tab, pr.old, e)
    [] pr.kind = "oldnav" -> tabVolumes
    [] OTHER -> FinishVolumes(tabVolumes, pr.tab, pr.vol, e)

\* The flush timer after the success path: the older handleVolumeChange does
\* not call saveVolumes.
EndSave(pr) ==
  IF pr.kind \in OldKinds THEN saveTimeout ELSE SaveVolumes(saveTimeout)

Done(pr, e) ==
  [pr EXCEPT !.pc = "done", !.err = e, !.msg = "none", !.ctx = "none",
             !.inTry = FALSE, !.held = "none"]

\* -------------------------------------------- background.js: handler tails
\* try-block end, then finally: state written, lock released, teardown check
\* scheduled, response sent.
FinishOk(p) ==
  LET pr == procs[p] IN
  /\ tabVolumes' = EndVolumes(pr, "none")
  /\ saveTimeout' = EndSave(pr)
  /\ activeTabOperations' = activeTabOperations \ {pr.tab}
  /\ closeOffscreenTimer' = TRUE
  /\ procs' = [procs EXCEPT ![p] = Done(pr, "none")]
  /\ UNCHANGED <<onUpdatedRestartTimers, restartTimeouts, closeChecks>>

\* The lock released on the success path only.
FinishErr_keepsLock(p, e) ==
  LET pr == procs[p] IN
  /\ tabVolumes' = FinishVolumes(tabVolumes, pr.tab, pr.vol, e)
  /\ closeOffscreenTimer' = TRUE
  /\ procs' = [procs EXCEPT ![p] = Done(pr, e)]
  /\ UNCHANGED <<activeTabOperations, onUpdatedRestartTimers, restartTimeouts, closeChecks,
                 saveTimeout>>

\* catch-block end (rethrow), then finally.
FinishErr(p, e) ==
  LET pr == procs[p] IN
  /\ tabVolumes' = EndVolumes(pr, e)
  /\ activeTabOperations' = activeTabOperations \ {pr.tab}
  /\ closeOffscreenTimer' = TRUE
  /\ procs' = [procs EXCEPT ![p] = Done(pr, e)]
  /\ UNCHANGED <<onUpdatedRestartTimers, restartTimeouts, closeChecks, saveTimeout>>

\* The busy error thrown inside the try block: the finally block runs.
RejectBusy_inTry(p) ==
  FinishErr(p, "busy")

\* `throw new Error("Operation busy, please wait.")`: thrown before the try
\* block, so neither the catch nor the finally block of handleVolumeChange
\* runs; the caller sends the error response.
RejectBusy(p) ==
  /\ procs' = [procs EXCEPT ![p] = Done(procs[p], "busy")]
  /\ UNCHANGED bgVars

\* `await _startCaptureProcess(tabId, volume)` in _updateCaptureProcess: its
\* first await is hasOffscreenDocument in setupOffscreenDocument.
UpdateFallback(p, tryBlock) ==
  /\ procs' = [procs EXCEPT ![p] =
                 [@ EXCEPT !.pc = "hasDoc", !.ctx = "setup", !.msg = "none",
                           !.fallbacks = @ + 1, !.inTry = tryBlock,
                           !.held = "none"]]
  /\ UNCHANGED bgVars

\* The catch block without its cleanup.
Fail_noCleanup(p, e) ==
  FinishErr(p, e)

\* An error thrown in the try block of handleVolumeChange.  A start that
\* _updateCaptureProcess made inside its own try block throws into the catch
\* of _updateCaptureProcess, which starts again; every other error enters the
\* catch block of handleVolumeChange: best-effort stop unless the error is a
\* stop failure.
Fail(p, e) ==
  LET pr == procs[p] IN
  IF pr.inTry THEN UpdateFallback(p, FALSE)
  ELSE IF ShouldBeCapturing(pr.vol) /\ ~MentionsStop(e)
    THEN /\ procs' = [procs EXCEPT ![p] =
                        [pr EXCEPT !.pc = "hasDoc", !.ctx = "cleanup",
                                   !.err = e, !.msg = "none", !.held = "none"]]
         /\ UNCHANGED bgVars
    ELSE FinishErr(p, e)

\* _startCaptureProcess entry: setupOffscreenDocument awaits hasOffscreenDocument.
BeginStart(p) ==
  /\ procs' = [procs EXCEPT ![p] =
                 [@ EXCEPT !.pc = "hasDoc", !.ctx = "setup", !.msg = "none"]]
  /\ UNCHANGED bgVars

\* After _sendStopMessageToOffscreen returns, by call site.
AfterStop(p) ==
  LET pr == procs[p] IN
  CASE pr.ctx = "stop" -> FinishOk(p)
    [] pr.ctx = "forced" ->
         /\ procs' = [procs EXCEPT ![p] =
                        [pr EXCEPT !.pc = "pause", !.ctx = "none", !.msg = "none"]]
         /\ UNCHANGED bgVars
    [] pr.ctx = "cleanup" -> FinishErr(p, pr.err)
    [] pr.ctx = "removed" ->
         /\ closeOffscreenTimer' = TRUE
         /\ procs' = [procs EXCEPT ![p] = FreeProc]
         /\ UNCHANGED <<tabVolumes, activeTabOperations, onUpdatedRestartTimers, restartTimeouts,
                        closeChecks, saveTimeout>>

\* tabCapture.getMediaStreamId resolves with an id only for a tab that was
\* open when it was called; it can always fail or time out (silent tab).
StreamAnswers(pr) ==
  {b \in BOOLEAN : b => pr.snap}

\* ------------------------------------------------ background.js: SET_VOLUME
\* onMessage SET_VOLUME, up to the first await of handleVolumeChange.
SetVolumeRequest(t, v) ==
  /\ inputs < MaxInputs
  /\ HasFree
  /\ inputs' = inputs + 1
  /\ LET old == Lookup(tabVolumes, t)
         pr == [FreeProc EXCEPT !.kind = "set", !.tab = t, !.vol = v, !.old = old]
     IN IF old = {v} /\ ~LockHeld(t)
          THEN procs' = [procs EXCEPT ![NewSlot] = Done(pr, "none")]
          ELSE procs' = [procs EXCEPT ![NewSlot] =
                           [pr EXCEPT !.pc = "checkTab", !.snap = tabExists[t]]]
  /\ UNCHANGED <<bgVars, workerVars, envVars, gat>>

\* handleVolumeChange from the resumption of _checkTabExists to its next
\* await: tab-gone cleanup, classification, lock acquisition, dispatch.
CheckTabResume(p, a) ==
  LET pr == procs[p] IN
  /\ pr.pc = "checkTab"
  /\ a \in TabAnswers(pr)
  /\ IF ~a
       THEN /\ IF Truthy(tabVolumes, pr.tab) /\ tabVolumes[pr.tab] # DEFAULT_VOLUME
                 THEN /\ tabVolumes' = Without(tabVolumes, pr.tab)
                      /\ saveTimeout' = SaveVolumes(saveTimeout)
                      /\ closeOffscreenTimer' = TRUE
                 ELSE UNCHANGED <<tabVolumes, saveTimeout, closeOffscreenTimer>>
            /\ procs' = [procs EXCEPT ![p] = Done(pr, "none")]
            /\ UNCHANGED <<activeTabOperations, onUpdatedRestartTimers, restartTimeouts, closeChecks>>
     ELSE IF LockHeld(pr.tab)
       THEN RejectBusy(p)
     ELSE LET d == Dispatch(pr.old, pr.vol)
              site == IF d = "stop" THEN "stop"
                      ELSE IF d = "update" THEN "update"
                      ELSE IF IsForcedRestart(pr.old, pr.vol) THEN "forced"
                      ELSE "setup"
          IN IF d = "noop"
               THEN /\ tabVolumes' = EndVolumes(pr, "none")
                    /\ saveTimeout' = EndSave(pr)
                    /\ closeOffscreenTimer' = TRUE
                    /\ procs' = [procs EXCEPT ![p] = Done(pr, "none")]
                    /\ UNCHANGED <<activeTabOperations, onUpdatedRestartTimers, restartTimeouts,
                                   closeChecks>>
               ELSE /\ activeTabOperations' = activeTabOperations \cup {pr.tab}
                    /\ procs' = [procs EXCEPT ![p] =
                                   [pr EXCEPT !.pc = "hasDoc", !.ctx = site,
                                              !.atLock = Lookup(tabVolumes, pr.tab)]]
                    /\ UNCHANGED <<tabVolumes, onUpdatedRestartTimers, restartTimeouts,
                                   closeOffscreenTimer, closeChecks, saveTimeout>>
  /\ UNCHANGED <<workerVars, envVars, gat, inputs>>

\* Resumption of `await hasOffscreenDocument()` in _sendStopMessageToOffscreen
\* (sites stop, forced, cleanup, removed), setupOffscreenDocument (setup) and
\* _updateCaptureProcess (update).
HasDocResume(p) ==
  LET pr == procs[p] IN
  /\ pr.pc = "hasDoc"
  /\ IF pr.ctx \in StopSites
       THEN IF offscreenDoc
              THEN /\ procs' = [procs EXCEPT ![p] =
                                  [pr EXCEPT !.pc = "sent", !.msg = Sent]]
                   /\ UNCHANGED bgVars
              ELSE AfterStop(p)
     ELSE IF pr.ctx = "setup"
       THEN /\ procs' = [procs EXCEPT ![p] =
                           IF offscreenDoc
                             THEN [pr EXCEPT !.pc = "getStream",
                                             !.snap = tabExists[pr.tab]]
                             ELSE [pr EXCEPT !.pc = "create"]]
            /\ UNCHANGED bgVars
     ELSE IF offscreenDoc
       THEN /\ procs' = [procs EXCEPT ![p] =
                           [pr EXCEPT !.pc = "sent", !.msg = Sent]]
            /\ UNCHANGED bgVars
     ELSE UpdateFallback(p, FALSE)
  /\ UNCHANGED <<workerVars, envVars, gat, inputs>>

\* Resumption of chrome.offscreen.createDocument: the document now exists
\* (created, or "only a single offscreen document" swallowed), or the call
\* failed for another reason and the error is rethrown.
CreateResume(p, ok) ==
  LET pr == procs[p] IN
  /\ pr.pc = "create"
  /\ ok \/ ~offscreenDoc
  /\ IF ok
       THEN /\ offscreenDoc' = TRUE
            /\ procs' = [procs EXCEPT ![p] =
                           [pr EXCEPT !.pc = "getStream", !.snap = tabExists[pr.tab]]]
            /\ UNCHANGED bgVars
       ELSE /\ Fail(p, "create")
            /\ UNCHANGED offscreenDoc
  /\ UNCHANGED <<activeStreams, orphans, envVars, gat, inputs>>

\* Resumption of _getMediaStreamIdWithTimeout in _startCaptureProcess.
GetStreamResume(p, ok) ==
  LET pr == procs[p] IN
  /\ pr.pc = "getStream"
  /\ ok \in StreamAnswers(pr)
  /\ IF ok
       THEN /\ procs' = [procs EXCEPT ![p] =
                           [pr EXCEPT !.pc = "sent", !.ctx = "start", !.msg = Sent]]
            /\ UNCHANGED bgVars
       ELSE Fail(p, "capture")
  /\ UNCHANGED <<workerVars, envVars, gat, inputs>>

\* The 100 ms pause of a forced restart elapses.
PauseResume(p) ==
  /\ procs[p].pc = "pause"
  /\ BeginStart(p)
  /\ UNCHANGED <<workerVars, envVars, gat, inputs>>

\* Resumption of `await chrome.runtime.sendMessage(...)`.
ReplyResume(p) ==
  LET pr == procs[p] IN
  /\ pr.pc = "sent"
  /\ pr.msg \in {"ok", "fail", "conn", "port"}
  /\ IF pr.ctx \in StopSites THEN AfterStop(p)
     ELSE IF pr.ctx = "start"
       THEN CASE pr.msg = "ok" -> FinishOk(p)
              [] pr.msg = "fail" -> Fail(p, "audio")
              [] pr.msg = "conn" -> Fail(p, "unavailable")
              [] pr.msg = "port" -> Fail(p, "send")
     ELSE IF pr.msg = "ok" THEN FinishOk(p)
     ELSE UpdateFallback(p, pr.msg = "fail" /\ pr.kind \notin OldKinds)
  /\ UNCHANGED <<workerVars, envVars, gat, inputs>>

\* The response reaches the popup (or the timer callback returns).
Reap(p) ==
  /\ procs[p].pc = "done"
  /\ procs' = [procs EXCEPT ![p] = FreeProc]
  /\ UNCHANGED <<bgVars, workerVars, envVars, gat, inputs>>

\* ------------------------------------------------------------ offscreen.js
\* The message a suspended sendMessage carries.
MsgType(pr) ==
  IF pr.ctx \in StopSites THEN "stop" ELSE pr.ctx

\* The gain without its lower clamp.
Gain_unclamped(v) ==
  v

\* Math.max(0, volume / 100), in hundredths.
Gain(v) ==
  IF v < 0 THEN 0 ELSE v

\* A stop that drops every tab's entry.
handleStopCapture_clearsAll(streams, t) ==
  [x \in {} |-> streams[x]]

\* handleStopCapture: tracks stopped, nodes disconnected, context closed,
\* entry deleted; nothing to do without an entry.
handleStopCapture(streams, t) ==
  Without(streams, t)

\* activeStreams[targetTabId] = {...}: an entry already there is no longer
\* referenced and its pipeline keeps running.
StoreEntry(t, v) ==
  /\ activeStreams' = With(activeStreams, t, [gain |-> Gain(v), state |-> "running"])
  /\ orphans' = IF t \in DOMAIN activeStreams
                  THEN [orphans EXCEPT ![t] = @ + 1] ELSE orphans

\* The catch block that stops no track and closes no context.
ReleaseOwn_leaks(h) ==
  h

\* The catch block of handleStartOrUpdateCapture on the call's own resources:
\* `if (stream)` its tracks are stopped, `if (audioContext ...)` it is closed.
ReleaseOwn(h) ==
  IF h = "live" THEN "released" ELSE h

\* The catch block of handleStartOrUpdateCapture on the tracking map:
\* `delete activeStreams[targetTabId]` drops whatever entry the tab has,
\* without stopping it.
SetupFailed(t) ==
  /\ activeStreams' = Without(activeStreams, t)
  /\ orphans' = IF t \in DOMAIN activeStreams
                  THEN [orphans EXCEPT ![t] = @ + 1] ELSE orphans

\* onMessage stopCapture.
WorkerStop(p) ==
  LET pr == procs[p] IN
  /\ pr.pc = "sent" /\ pr.msg = "sent" /\ MsgType(pr) = "stop"
  /\ activeStreams' = handleStopCapture(activeStreams, pr.tab)
  /\ procs' = [procs EXCEPT ![p] = [pr EXCEPT !.msg = "ok"]]
  /\ UNCHANGED <<offscreenDoc, orphans, bgVars, envVars, gat, inputs>>

\* onMessage updateVolume: handleUpdateVolume sets the gain of a running
\* entry and otherwise only logs; the response is {success: true} either way.
WorkerUpdate(p) ==
  LET pr == procs[p] IN
  /\ pr.pc = "sent" /\ pr.msg = "sent" /\ MsgType(pr) = "update"
  /\ activeStreams' =
       IF pr.tab \in DOMAIN activeStreams /\ activeStreams[pr.tab].state = "running"
         THEN [activeStreams EXCEPT ![pr.tab].gain = Gain(pr.vol)]
         ELSE activeStreams
  /\ procs' = [procs EXCEPT ![p] = [pr EXCEPT !.msg = "ok"]]
  /\ UNCHANGED <<offscreenDoc, orphans, bgVars, envVars, gat, inputs>>

\* onMessage startOrUpdateCapture up to `await getUserMedia`.
WorkerStartRecv(p) ==
  LET pr == procs[p] IN
  /\ pr.pc = "sent" /\ pr.msg = "sent" /\ MsgType(pr) = "start"
  /\ activeStreams' = handleStopCapture(activeStreams, pr.tab)
  /\ procs' = [procs EXCEPT ![p] = [pr EXCEPT !.msg = "gum", !.starts = @ + 1]]
  /\ UNCHANGED <<offscreenDoc, orphans, bgVars, envVars, gat, inputs>>

\* getUserMedia settles: r = "fail" (rejected), "running" (context runs at
\* once: graph built and stored) or "suspended" (await audioContext.resume()).
\* A stream is delivered only for a tab that is open at that moment.
WorkerGumDone(p, r) ==
  LET pr == procs[p] IN
  /\ pr.pc = "sent" /\ pr.msg = "gum"
  /\ r # "fail" => tabExists[pr.tab]
  /\ CASE r = "fail" ->
            /\ SetupFailed(pr.tab)
            /\ procs' = [procs EXCEPT ![p] = [pr EXCEPT !.msg = "fail"]]
       [] r = "running" ->
            /\ StoreEntry(pr.tab, pr.vol)
            /\ procs' = [procs EXCEPT ![p] = [pr EXCEPT !.msg = "ok"]]
       [] r = "suspended" ->
            /\ procs' = [procs EXCEPT ![p] =
                           [pr EXCEPT !.msg = "resume", !.held = "live"]]
            /\ UNCHANGED <<activeStreams, orphans>>
  /\ UNCHANGED <<offscreenDoc, bgVars, envVars, gat, inputs>>

\* audioContext.resume() settles: running, or not (setup fails).
WorkerResumeDone(p, ok) ==
  LET pr == procs[p] IN
  /\ pr.pc = "sent" /\ pr.msg = "resume"
  /\ IF ok
       THEN /\ StoreEntry(pr.tab, pr.vol)
            /\ procs' = [procs EXCEPT ![p] =
                           [pr EXCEPT !.msg = "ok", !.held = "none"]]
       ELSE /\ SetupFailed(pr.tab)
            /\ procs' = [procs EXCEPT ![p] =
                           [pr EXCEPT !.msg = "fail", !.held = ReleaseOwn(pr.held)]]
  /\ UNCHANGED <<offscreenDoc, bgVars, envVars, gat, inputs>>

\* ------------------------------------------------- background.js: timers
\* The teardown timer fires: checkAndClose up to `await hasOffscreenDocument()`.
CloseTimerFire ==
  /\ closeOffscreenTimer
  /\ closeChecks < MaxCloseChecks
  /\ closeOffscreenTimer' = FALSE
  /\ closeChecks' = IF ~NeedsCapture /\ activeTabOperations = {}
                      THEN closeChecks + 1 ELSE closeChecks
  /\ UNCHANGED <<tabVolumes, activeTabOperations, onUpdatedRestartTimers, restartTimeouts,
                 saveTimeout, workerVars, envVars, procs, gat, inputs>>

\* checkAndClose resumes: chrome.offscreen.closeDocument() if the document
\* exists.  Closing destroys the worker's state; sends still waiting for a
\* response are rejected.
CloseCheckResume ==
  /\ closeChecks > 0
  /\ closeChecks' = closeChecks - 1
  /\ IF offscreenDoc
       THEN /\ offscreenDoc' = FALSE
            /\ activeStreams' = <<>>
            /\ orphans' = [t \in Tabs |-> 0]
            /\ procs' = [p \in Procs |->
                           IF procs[p].msg \in {"sent", "gum", "resume"}
                             THEN [procs[p] EXCEPT !.msg = "port", !.held = "none"]
                             ELSE procs[p]]
       ELSE UNCHANGED <<workerVars, procs>>
  /\ UNCHANGED <<tabVolumes, activeTabOperations, onUpdatedRestartTimers, restartTimeouts,
                 closeOffscreenTimer, saveTimeout, envVars, gat, inputs>>

\* The persistence timer fires: saveAction.  chrome.storage.local.set is
\* given the store as it is now; a rejected write is logged and nothing more.
SaveFire(ok) ==
  /\ saveTimeout > 0
  /\ saveTimeout' = saveTimeout - 1
  /\ persisted' = IF ok THEN tabVolumes ELSE persisted
  /\ UNCHANGED <<tabVolumes, activeTabOperations, onUpdatedRestartTimers, restartTimeouts,
                 closeOffscreenTimer, closeChecks, workerVars, tabExists, removedQ,
                 procs, gat, inputs>>

\* ----------------------------------------------- background.js: tab events
\* The comparison inverted.
WasCapturing_inverted(f, t) ==
  f[t] = DEFAULT_VOLUME

\* tabVolumes[tabId] !== DEFAULT_VOLUME, read in onRemoved for a stored tab.
WasCapturing(f, t) ==
  f[t] # DEFAULT_VOLUME

\* clearTimeout(onUpdatedRestartTimers[tabId]): the timeout the map refers to is
\* cancelled; with no reference the call does nothing.
ClearTimeout(live, refs, t) ==
  IF t \in refs /\ live[t] > 0 THEN [live EXCEPT ![t] = @ - 1] ELSE live

\* OnUpdated without the pending-timer test and without the clearTimeout.
OnUpdated_overwrites(t) ==
  /\ inputs < MaxInputs
  /\ tabExists[t]
  /\ t \in DOMAIN tabVolumes /\ tabVolumes[t] # DEFAULT_VOLUME
  /\ ~LockHeld(t)
  /\ inputs' = inputs + 1
  /\ onUpdatedRestartTimers' = onUpdatedRestartTimers \cup {t}
  /\ restartTimeouts' = [restartTimeouts EXCEPT ![t] = @ + 1]
  /\ UNCHANGED <<tabVolumes, activeTabOperations, closeOffscreenTimer, closeChecks,
                 saveTimeout, workerVars, envVars, procs, gat>>

\* chrome.tabs.onUpdated with "load complete and audible" for a boosted tab
\* that is neither locked nor waiting for a restart: the restart is scheduled.
\* (Every other onUpdated event returns without touching any state.)
OnUpdated(t) ==
  /\ inputs < MaxInputs
  /\ tabExists[t]
  /\ t \in DOMAIN tabVolumes /\ tabVolumes[t] # DEFAULT_VOLUME
  /\ ~LockHeld(t)
  /\ t \notin onUpdatedRestartTimers
  /\ inputs' = inputs + 1
  /\ onUpdatedRestartTimers' = onUpdatedRestartTimers \cup {t}
  /\ restartTimeouts' = [ClearTimeout(restartTimeouts, onUpdatedRestartTimers, t)
                          EXCEPT ![t] = @ + 1]
  /\ UNCHANGED <<tabVolumes, activeTabOperations, closeOffscreenTimer, closeChecks,
                 saveTimeout, workerVars, envVars, procs, gat>>

\* The restart timer fires: the callback up to `await _checkTabExists`.
RestartTimerFire(t) ==
  /\ restartTimeouts[t] > 0
  /\ HasFree
  /\ restartTimeouts' = [restartTimeouts EXCEPT ![t] = @ - 1]
  /\ onUpdatedRestartTimers' = onUpdatedRestartTimers \ {t}
  /\ procs' = [procs EXCEPT ![NewSlot] =
                 [FreeProc EXCEPT !.kind = "nav", !.pc = "timerCheck", !.tab = t,
                                  !.snap = tabExists[t]]]
  /\ UNCHANGED <<tabVolumes, activeTabOperations, closeOffscreenTimer, closeChecks,
                 saveTimeout, workerVars, envVars, gat, inputs>>

\* The restart handed the stored volume as oldVolume.
TimerCheckResume_oldFromStore(p, a) ==
  LET pr == procs[p] IN
  /\ pr.pc = "timerCheck"
  /\ a \in TabAnswers(pr)
  /\ IF a /\ ~LockHeld(pr.tab)
        /\ pr.tab \in DOMAIN tabVolumes /\ tabVolumes[pr.tab] # DEFAULT_VOLUME
       THEN procs' = [procs EXCEPT ![p] =
                        [pr EXCEPT !.pc = "checkTab", !.vol = tabVolumes[pr.tab],
                                   !.old = Lookup(tabVolumes, pr.tab),
                                   !.snap = tabExists[pr.tab]]]
       ELSE procs' = [procs EXCEPT ![p] = FreeProc]
  /\ UNCHANGED <<bgVars, workerVars, envVars, gat, inputs>>

\* The callback without its lock check.
TimerCheckResume_ignoresLock(p, a) ==
  LET pr == procs[p] IN
  /\ pr.pc = "timerCheck"
  /\ a \in TabAnswers(pr)
  /\ IF a /\ pr.tab \in DOMAIN tabVolumes /\ tabVolumes[pr.tab] # DEFAULT_VOLUME
       THEN procs' = [procs EXCEPT ![p] =
                        [pr EXCEPT !.pc = "checkTab", !.vol = tabVolumes[pr.tab],
                                   !.old = {DEFAULT_VOLUME},
                                   !.snap = tabExists[pr.tab]]]
       ELSE procs' = [procs EXCEPT ![p] = FreeProc]
  /\ UNCHANGED <<bgVars, workerVars, envVars, gat, inputs>>

\* The callback resumes: re-validation, then handleVolumeChange(tabId,
\* latestVolume, DEFAULT_VOLUME) up to its own `await _checkTabExists`.
TimerCheckResume(p, a) ==
  LET pr == procs[p] IN
  /\ pr.pc = "timerCheck"
  /\ a \in TabAnswers(pr)
  /\ IF a /\ ~LockHeld(pr.tab)
        /\ pr.tab \in DOMAIN tabVolumes /\ tabVolumes[pr.tab] # DEFAULT_VOLUME
       THEN procs' = [procs EXCEPT ![p] =
                        [pr EXCEPT !.pc = "checkTab", !.vol = tabVolumes[pr.tab],
                                   !.old = {DEFAULT_VOLUME},
                                   !.snap = tabExists[pr.tab]]]
       ELSE procs' = [procs EXCEPT ![p] = FreeProc]
  /\ UNCHANGED <<bgVars, workerVars, envVars, gat, inputs>>

\* The user closes the tab; the browser queues onRemoved.
CloseTab(t) ==
  /\ inputs < MaxInputs
  /\ tabExists[t]
  /\ inputs' = inputs + 1
  /\ tabExists' = [tabExists EXCEPT ![t] = FALSE]
  /\ removedQ' = removedQ \cup {t}
  /\ UNCHANGED <<bgVars, workerVars, persisted, procs, gat>>

\* chrome.tabs.onRemoved listener up to its first await: lock cleared, restart
\* timer cancelled, volume entry deleted and save scheduled; then either the
\* stop is under way (await hasOffscreenDocument) or the listener ends with
\* the teardown check scheduled.
OnRemoved(t) ==
  LET stored == t \in DOMAIN tabVolumes
      stop == stored /\ WasCapturing(tabVolumes, t)
  IN
  /\ t \in removedQ
  /\ stop => HasFree
  /\ removedQ' = removedQ \ {t}
  /\ activeTabOperations' = activeTabOperations \ {t}
  /\ onUpdatedRestartTimers' = onUpdatedRestartTimers \ {t}
  /\ restartTimeouts' = ClearTimeout(restartTimeouts, onUpdatedRestartTimers, t)
  /\ tabVolumes' = Without(tabVolumes, t)
  /\ saveTimeout' = IF stored THEN SaveVolumes(saveTimeout) ELSE saveTimeout
  /\ IF stop
       THEN /\ procs' = [procs EXCEPT ![NewSlot] =
                           [FreeProc EXCEPT !.kind = "removed", !.pc = "hasDoc",
                                            !.ctx = "removed", !.tab = t]]
            /\ UNCHANGED closeOffscreenTimer
       ELSE /\ closeOffscreenTimer' = TRUE
            /\ UNCHANGED procs
  /\ UNCHANGED <<closeChecks, workerVars, tabExists, persisted, gat, inputs>>

\* ------------------------------------------ background.js: GET_ACTIVE_TABS
\* The tabs the first filter keeps: vol !== DEFAULT_VOLUME.
Boosted(f) ==
  {t \in DOMAIN f : f[t] # DEFAULT_VOLUME}

\* The list sent back: the looked-up tabs that still have a key, each with
\* tabVolumes[tab.id] as it is now.
ActiveTabsData(f, found) ==
  [t \in {x \in found : x \in DOMAIN f} |-> f[t]]

\* onMessage GET_ACTIVE_TABS up to the lookups.
GetActiveTabsRequest ==
  /\ inputs < MaxInputs
  /\ gat.pc = "idle"
  /\ inputs' = inputs + 1
  /\ LET ids == Boosted(tabVolumes)
     IN gat' = IF ids = {}
                 THEN [IdleGat EXCEPT !.pc = "done"]
                 ELSE [IdleGat EXCEPT !.pc = "lookups", !.pending = ids,
                                      !.alive = {t \in ids : tabExists[t]}]
  /\ UNCHANGED <<bgVars, workerVars, envVars, procs>>

\* One chrome.tabs.get(tabId) of the request settles; a rejection prunes the
\* tab.  When it is the last one, Promise.all resolves and the list is sent.
GatLookupResume(t, a) ==
  /\ gat.pc = "lookups"
  /\ t \in gat.pending
  /\ a => t \in gat.alive
  /\ ~a => ~tabExists[t]
  /\ IF ~a /\ Truthy(tabVolumes, t)
       THEN /\ tabVolumes' = Without(tabVolumes, t)
            /\ saveTimeout' = SaveVolumes(saveTimeout)
            /\ closeOffscreenTimer' = TRUE
       ELSE UNCHANGED <<tabVolumes, saveTimeout, closeOffscreenTimer>>
  /\ LET found == IF a THEN gat.found \cup {t} ELSE gat.found
         rest == gat.pending \ {t}
     IN gat' = IF rest = {}
                 THEN [gat EXCEPT !.pc = "done", !.pending = {}, !.found = found,
                                  !.result = ActiveTabsData(tabVolumes', found)]
                 ELSE [gat EXCEPT !.pending = rest, !.found = found]
  /\ UNCHANGED <<activeTabOperations, onUpdatedRestartTimers, restartTimeouts, closeChecks,
                 workerVars, envVars, procs, inputs>>

\* The list reaches the popup.
GatReap ==
  /\ gat.pc = "done"
  /\ gat' = IdleGat
  /\ UNCHANGED <<bgVars, workerVars, envVars, procs, inputs>>

\* ------------------------------------------------------------ specification
Request ==
  \/ \E t \in Tabs, v \in Volumes : SetVolumeRequest(t, v)
  \/ GetActiveTabsRequest

TabEvent ==
  \/ \E t \in Tabs : OnUpdated(t)
  \/ \E t \in Tabs : CloseTab(t)
  \/ \E t \in Tabs : OnRemoved(t)

Background ==
  \/ \E p \in Procs, a \in BOOLEAN : CheckTabResume(p, a)
  \/ \E p \in Procs : HasDocResume(p)
  \/ \E p \in Procs, ok \in BOOLEAN : CreateResume(p, ok)
  \/ \E p \in Procs, ok \in BOOLEAN : GetStreamResume(p, ok)
  \/ \E p \in Procs : PauseResume(p)
  \/ \E p \in Procs : ReplyResume(p)
  \/ \E p \in Procs : Reap(p)
  \/ \E t \in Tabs : RestartTimerFire(t)
  \/ \E p \in Procs, a \in BOOLEAN : TimerCheckResume(p, a)
  \/ \E t \in Tabs, a \in BOOLEAN : GatLookupResume(t, a)
  \/ GatReap
  \/ CloseTimerFire
  \/ CloseCheckResume
  \/ \E ok \in BOOLEAN : SaveFire(ok)

Worker ==
  \/ \E p \in Procs : WorkerStop(p)
  \/ \E p \in Procs : WorkerUpdate(p)
  \/ \E p \in Procs : WorkerStartRecv(p)
  \/ \E p \in Procs, r \in {"fail", "running", "suspended"} : WorkerGumDone(p, r)
  \/ \E p \in Procs, ok \in BOOLEAN : WorkerResumeDone(p, ok)

Next ==
  \/ Request
  \/ TabEvent
  \/ Background
  \/ Worker

Spec ==
  Init /\ [][Next]_vars

\* ------------------------------------------- the worker under any client
\* The offscreen document alone: a client of its message interface sends
\* startOrUpdateCapture, updateVolume and stopCapture in any order and takes
\* the responses.
WorkerInit ==
  /\ tabExists = [t \in Tabs |-> TRUE]
  /\ removedQ = {}
  /\ tabVolumes = <<>>
  /\ activeTabOperations = {}
  /\ onUpdatedRestartTimers = {}
  /\ restartTimeouts = [tb \in Tabs |-> 0]
  /\ closeOffscreenTimer = FALSE
  /\ closeChecks = 0
  /\ saveTimeout = 0
  /\ persisted = tabVolumes
  /\ offscreenDoc = TRUE
  /\ activeStreams = <<>>
  /\ orphans = [t \in Tabs |-> 0]
  /\ procs = [p \in Procs |-> FreeProc]
  /\ gat = IdleGat
  /\ inputs = 0

\* The volumes a client can put into a message: any number, the slider's
\* range and beyond (the worker validates the type only).
ClientVolumes ==
  Volumes \cup {-100, 600}

ClientSend(type, t, v) ==
  /\ inputs < MaxInputs
  /\ HasFree
  /\ inputs' = inputs + 1
  /\ procs' = [procs EXCEPT ![NewSlot] =
                 [FreeProc EXCEPT !.kind = "client", !.pc = "sent", !.ctx = type,
                                  !.tab = t, !.vol = v, !.msg = "sent"]]
  /\ UNCHANGED <<bgVars, workerVars, envVars, gat>>

ClientRecv(p) ==
  /\ procs[p].kind = "client"
  /\ procs[p].msg \in {"ok", "fail"}
  /\ procs' = [procs EXCEPT ![p] = FreeProc]
  /\ UNCHANGED <<bgVars, workerVars, envVars, gat, inputs>>

WorkerNext ==
  \/ \E type \in {"start", "update", "stop"}, t \in Tabs, v \in ClientVolumes :
       ClientSend(type, t, v)
  \/ \E p \in Procs : ClientRecv(p)
  \/ Worker

WorkerSpec ==
  WorkerInit /\ [][WorkerNext]_vars

\* --------------------------------------- handleVolumeChange on every input
\* handleVolumeChange(tabId, newVolume, oldVolume) called once, for every pair
\* of an oldVolume (absent or a sample of the slider's range) and a newVolume,
\* in the state that stored volume stands for: a boosted tab has its pipeline
\* in the offscreen document, any other tab has none and there is no document.
VolumeSamples ==
  {0, 50, 100, 200, 600}

OldSamples ==
  {{}} \cup {{v} : v \in VolumeSamples}

ClassifyInit ==
  \E old \in OldSamples, new \in VolumeSamples :
    LET t == CHOOSE x \in Tabs : \A y \in Tabs : x <= y
        boosted == IsCurrentlyCapturing(old)
    IN
    /\ tabExists = [x \in Tabs |-> TRUE]
    /\ removedQ = {}
    /\ tabVolumes = [x \in {y \in {t} : old # {}} |-> CHOOSE v \in old : TRUE]
    /\ activeTabOperations = {}
    /\ onUpdatedRestartTimers = {}
    /\ restartTimeouts = [tb \in Tabs |-> 0]
    /\ closeOffscreenTimer = FALSE
    /\ closeChecks = 0
    /\ saveTimeout = 0
    /\ persisted = tabVolumes
    /\ offscreenDoc = boosted
    /\ activeStreams = [x \in {y \in {t} : boosted} |->
                          [gain |-> Gain(CHOOSE v \in old : TRUE), state |-> "running"]]
    /\ orphans = [x \in Tabs |-> 0]
    /\ procs = [p \in Procs |->
                  IF p = NewSlotOf([q \in Procs |-> FreeProc])
                    THEN [FreeProc EXCEPT !.kind = "set", !.pc = "checkTab", !.tab = t,
                                          !.vol = new, !.old = old, !.snap = TRUE]
                    ELSE FreeProc]
    /\ gat = IdleGat
    /\ inputs = MaxInputs

ClassifyNext ==
  \/ \E p \in Procs, a \in BOOLEAN : CheckTabResume(p, a)
  \/ \E p \in Procs : HasDocResume(p)
  \/ \E p \in Procs, ok \in BOOLEAN : CreateResume(p, ok)
  \/ \E p \in Procs, ok \in BOOLEAN : GetStreamResume(p, ok)
  \/ \E p \in Procs : PauseResume(p)
  \/ \E p \in Procs : ReplyResume(p)
  \/ \E p \in Procs : Reap(p)
  \/ CloseTimerFire
  \/ CloseCheckResume
  \/ \E ok \in BOOLEAN : SaveFire(ok)
  \/ Worker

ClassifySpec ==
  ClassifyInit /\ [][ClassifyNext]_vars

\* ------------------------------------------------------ fair specification
\* Every suspended browser call settles, every scheduled timer fires and the
\* worker answers every message; requests and tab events may stop arriving.
LiveRequest ==
  Request /\ inputs' <= MaxLiveInputs

LiveTabEvent ==
  TabEvent /\ inputs' <= MaxLiveInputs

LiveNext ==
  \/ LiveRequest
  \/ LiveTabEvent
  \/ Background
  \/ Worker

LiveSpec ==
  Init /\ [][LiveNext]_vars
       /\ WF_vars(Background \/ Worker \/ \E t \in Tabs : OnRemoved(t))

\* ------------------------------------------------------------------ claims
\* The transitions of tab t between lock acquisition and their end.
PostLock == {"hasDoc", "create", "getStream", "pause", "sent"}

InFlight(t) ==
  {p \in Procs : procs[p].kind \in {"set", "nav"} /\ procs[p].tab = t
                 /\ procs[p].pc \in PostLock}

\* C1: per-tab mutual exclusion: at most one handleVolumeChange transition of
\* a tab is between its lock acquisition and its end, in every reachable state.
C1_AtMostOneInFlight ==
  \A t \in Tabs : Cardinality(InFlight(t)) <= 1

\* The live pipelines of tab t at the worker: the tracked one and the others.
LivePipelines(t) ==
  orphans[t] + (IF t \in DOMAIN activeStreams THEN 1 ELSE 0)

\* C2: at the worker, for any interleaving of start, update and stop messages,
\* a tab has at most one live pipeline and every live pipeline is the one its
\* activeStreams entry tracks.
C2_OneTrackedPipeline ==
  \A t \in Tabs : LivePipelines(t) <= 1 /\ orphans[t] = 0

\* C3: a request that resumes from its tab check while the tab's lock is held
\* ends in that step: it reaches the lock check and ends with the Busy error,
\* the store untouched (the only outcome for an open tab), or it was told the
\* tab is gone and ended before the lock check.  Either way it acquires
\* nothing and sends nothing, and a request ended with Busy never runs again.
C3_BusyFailsFast ==
  [][\A p \in Procs :
       /\ (procs[p].pc = "checkTab" /\ procs[p].tab \in activeTabOperations
           /\ procs'[p] # procs[p])
          => /\ procs'[p].pc = "done"
             /\ procs'[p].msg = "none"
             /\ activeTabOperations' = activeTabOperations
             /\ activeStreams' = activeStreams
             /\ \/ procs'[p].err = "busy" /\ tabVolumes' = tabVolumes
                \/ ~tabExists[procs[p].tab] /\ procs'[p].err = "none"
       /\ (procs[p].pc = "done" /\ procs[p].err = "busy")
          => procs'[p] \in {procs[p], FreeProc}]_vars

C3_Witness ==
  \E p \in Procs, q \in Procs :
    /\ procs[p].kind = "set" /\ procs[p].pc = "done" /\ procs[p].err = "busy"
    /\ q \in InFlight(procs[p].tab)
    /\ procs[p].tab \in activeTabOperations

\* A transition of tab t ends in this step.
Ends(p) ==
  procs[p].pc \in PostLock /\ procs[p].kind \in {"set", "nav"}
  /\ procs'[p].pc \notin PostLock

\* C4: every transition that acquired the lock gets to its end, the lock is
\* not held when it has ended, and a lock is held only while a transition of
\* the tab is in flight.
C4_LockReleased ==
  /\ [](\A t \in Tabs : t \in activeTabOperations => InFlight(t) # {})
  /\ [][\A p \in Procs : Ends(p) => procs[p].tab \notin activeTabOperations']_vars
  /\ \A p \in Procs :
       (procs[p].pc \in PostLock /\ procs[p].kind \in {"set", "nav"})
         ~> (procs[p].pc \notin PostLock)

C4_Witness ==
  \E p \in Procs :
    /\ procs[p].kind = "set" /\ procs[p].pc = "done"
    /\ procs[p].err \in {"capture", "audio", "unavailable"}
    /\ activeTabOperations = {}

\* A request or restart produces its outcome in this step.
Completes(p) ==
  procs[p].pc # "done" /\ procs'[p].pc = "done"

\* C5: a request that ends with an error leaves the Volume Store as it is, and
\* a value is put into the store only by the step in which a transition for
\* that tab and that value completes successfully.
C5_ErrorKeepsStore ==
  [][/\ \A p \in Procs :
          (Completes(p) /\ procs'[p].err # "none") => tabVolumes' = tabVolumes
     /\ \A t \in DOMAIN tabVolumes' :
          Lookup(tabVolumes', t) # Lookup(tabVolumes, t)
            => \E p \in Procs : /\ Completes(p)
                                /\ procs'[p].err = "none"
                                /\ procs'[p].tab = t
                                /\ procs'[p].vol = tabVolumes'[t]]_vars

C5_Witness ==
  \E p \in Procs :
    /\ procs[p].kind = "set" /\ procs[p].pc = "done"
    /\ procs[p].err \in {"capture", "audio"}
    /\ procs[p].tab \in DOMAIN tabVolumes
    /\ tabVolumes[procs[p].tab] # procs[p].vol

\* C6: when a transition that held the lock has failed, the tab's stored
\* volume differs from 100 exactly if the worker holds an entry for the tab.
C6_FailedAgree ==
  [][\A p \in Procs :
       (Completes(p) /\ procs'[p].err \notin {"none", "busy"})
         => (VolumeOf(tabVolumes', procs'[p].tab) # DEFAULT_VOLUME
               <=> procs'[p].tab \in DOMAIN activeStreams')]_vars

\* C7: a tab that was never set reads 100; the store changes to a value other
\* than 100 only by a successful set; and when SetVolume(t, v) reports success
\* for an open tab, GetVolume(t) is v.
C7_RoundTrip ==
  /\ \A t \in Tabs : GetVolume(t) = DEFAULT_VOLUME
  /\ [][/\ \A p \in Procs :
             (Completes(p) /\ procs'[p].kind = "set" /\ procs'[p].err = "none"
              /\ tabExists'[procs'[p].tab])
               => VolumeOf(tabVolumes', procs'[p].tab) = procs'[p].vol
        /\ \A t \in Tabs :
             (VolumeOf(tabVolumes', t) # GetVolume(t)
              /\ VolumeOf(tabVolumes', t) # DEFAULT_VOLUME)
               => \E p \in Procs : Completes(p) /\ procs'[p].err = "none"
                                   /\ procs'[p].tab = t]_vars

C7_Witness ==
  \E p \in Procs, q \in Procs :
    /\ procs[p].kind = "set" /\ procs[p].pc = "done" /\ procs[p].err = "none"
    /\ tabExists[procs[p].tab]
    /\ GetVolume(procs[p].tab) = procs[p].vol
    /\ procs[p].old # {} /\ procs[p].old # {procs[p].vol}
    /\ procs[q].kind = "set" /\ procs[q].pc = "done" /\ procs[q].err = "none"
    /\ procs[q].vol = DEFAULT_VOLUME /\ procs[q].old # {}
    /\ GetVolume(procs[q].tab) = DEFAULT_VOLUME

\* C8: the list GetActiveTabs sends holds exactly the looked-up tabs whose
\* stored volume differs from 100, each with its stored volume; no tab of
\* volume 100 is in it.
C8_ActiveTabsExact ==
  [][(gat.pc # "done" /\ gat'.pc = "done")
       => /\ DOMAIN gat'.result = gat'.found \cap Boosted(tabVolumes')
          /\ \A t \in DOMAIN gat'.result :
               gat'.result[t] = tabVolumes'[t] /\ gat'.result[t] # DEFAULT_VOLUME]_vars

\* C9: the closure handler of a tab with a stored volume other than 100
\* removes the tab from the store and goes on to stop its capture, and the
\* stop message is sent when the offscreen document exists.
C9_ClosureCleanup ==
  [][/\ \A t \in Tabs :
          (t \in removedQ /\ t \notin removedQ' /\ t \in Boosted(tabVolumes))
            => /\ t \notin DOMAIN tabVolumes'
               /\ \E p \in Procs : /\ procs'[p].kind = "removed"
                                   /\ procs'[p].tab = t
                                   /\ procs'[p].pc = "hasDoc"
     /\ \A p \in Procs :
          (procs[p].kind = "removed" /\ procs[p].pc = "hasDoc"
           /\ procs'[p] # procs[p] /\ offscreenDoc)
            => /\ procs'[p].pc = "sent" /\ procs'[p].msg = "sent"
               /\ MsgType(procs'[p]) = "stop" /\ procs'[p].tab = procs[p].tab]_vars

C9_Witness ==
  \E p \in Procs :
    /\ procs[p].kind = "removed" /\ procs[p].pc = "sent" /\ procs[p].msg = "sent"
    /\ procs[p].tab \notin DOMAIN tabVolumes

\* No request, restart, closure event or restart timer is under way.
Idle ==
  /\ \A p \in Procs : procs[p].pc \in {"none", "done"}
  /\ removedQ = {}
  /\ onUpdatedRestartTimers = {}
  /\ restartTimeouts = [tb \in Tabs |-> 0]

\* C10: once nothing is under way and no open tab needs capture, the
\* offscreen document is destroyed unless a new request or event arrives.
C10_TeardownHappens ==
  \A n \in 0..MaxLiveInputs :
    (Idle /\ inputs = n /\ \A t \in Tabs : tabExists[t] => GetVolume(t) = DEFAULT_VOLUME)
      ~> (~offscreenDoc \/ inputs # n)

\* C11: a navigation restart is a forced Start: it sends its explicit stop
\* first, the worker never gets an updateVolume from it and gets at most one
\* startOrUpdateCapture, and a restart that held the lock and ends without an
\* error has delivered exactly one startOrUpdateCapture.
C11_RestartIsOneStart ==
  /\ [](\A p \in Procs :
         procs[p].kind = "nav" => procs[p].ctx # "update" /\ procs[p].starts <= 1)
  /\ [][\A p \in Procs :
          procs[p].kind = "nav"
            => /\ (procs[p].pc = "checkTab" /\ procs'[p].pc = "hasDoc")
                    => procs'[p].ctx = "forced"
               /\ (procs[p].pc \in PostLock /\ Completes(p) /\ procs'[p].err = "none")
                    => procs'[p].starts = 1]_vars

C11_Witness ==
  \E p \in Procs :
    /\ procs[p].kind = "nav" /\ procs[p].pc = "done" /\ procs[p].err = "none"
    /\ procs[p].starts = 1
    /\ procs[p].tab \in DOMAIN activeStreams

\* C12: a stop for a tab without an entry is answered without an error and
\* leaves every entry of every tab as it is; after a stop the tab has no
\* entry, and stopping twice gives the state that stopping once gives.
C12_StopIdempotent ==
  /\ [](\A t \in Tabs :
         handleStopCapture(handleStopCapture(activeStreams, t), t)
           = handleStopCapture(activeStreams, t))
  /\ [][\A p \in Procs :
          (procs[p].msg = "sent" /\ MsgType(procs[p]) = "stop"
           /\ procs'[p].msg \in {"ok", "fail"})
            => /\ procs'[p].msg = "ok"
               /\ procs[p].tab \notin DOMAIN activeStreams'
               /\ \A t \in Tabs \ {procs[p].tab} :
                    Lookup(activeStreams', t) = Lookup(activeStreams, t)
               /\ procs[p].tab \notin DOMAIN activeStreams
                    => activeStreams' = activeStreams /\ orphans' = orphans]_vars

C12_Witness ==
  \E p \in Procs, q \in Procs :
    /\ p # q /\ procs[p].tab = procs[q].tab
    /\ procs[p].kind = "client" /\ procs[p].ctx = "stop" /\ procs[p].msg = "ok"
    /\ procs[q].kind = "client" /\ procs[q].ctx = "stop" /\ procs[q].msg = "ok"
    /\ activeStreams # <<>>

\* max(0, v / 100) in hundredths, written out.
ClampedGain(v) ==
  IF v > 0 THEN v ELSE 0

\* C13: whenever the worker sets the gain of an entry, a startOrUpdateCapture
\* or updateVolume message of that tab with volume v is being handled and the
\* gain is max(0, v / 100): 0 for volume 0, 6.0 for volume 600, and no stored
\* gain is negative.
C13_GainClamp ==
  /\ [](\A t \in DOMAIN activeStreams : activeStreams[t].gain >= 0)
  /\ [][\A t \in DOMAIN activeStreams' :
          Lookup(activeStreams', t) # Lookup(activeStreams, t)
            => \E p \in Procs :
                 /\ procs[p].tab = t
                 /\ MsgType(procs[p]) \in {"start", "update"}
                 /\ procs'[p].msg = "ok"
                 /\ activeStreams'[t].gain = ClampedGain(procs[p].vol)
                 /\ procs[p].vol = 0 => activeStreams'[t].gain = 0
                 /\ procs[p].vol = 600 => activeStreams'[t].gain = 600]_vars

C13_Witness ==
  \E p \in Procs, q \in Procs :
    /\ procs[p].kind = "client" /\ procs[p].ctx = "update" /\ procs[p].msg = "ok"
    /\ procs[p].vol < 0
    /\ procs[p].tab \in DOMAIN activeStreams
    /\ activeStreams[procs[p].tab].gain = 0
    /\ procs[q].kind = "client" /\ procs[q].ctx = "start" /\ procs[q].msg = "ok"
    /\ procs[q].vol = 600 /\ procs[q].tab # procs[p].tab
    /\ procs[q].tab \in DOMAIN activeStreams
    /\ activeStreams[procs[q].tab].gain = 600

\* The case the claim's table gives for (old, new).
Classified(old, new) ==
  IF new = DEFAULT_VOLUME
    THEN IF old = {} \/ old = {DEFAULT_VOLUME} THEN "noop" ELSE "stop"
    ELSE IF old = {} \/ old = {DEFAULT_VOLUME} THEN "start" ELSE "update"

\* C14: for every oldVolume (absent or in the range) and newVolume the dispatch
\* selects exactly the case of the table: Stop, Start (with the explicit stop
\* first exactly when old = 100), Update or NoOp; and handleVolumeChange takes
\* that case.
C14_Classification ==
  /\ [](\A old \in OldSamples, new \in VolumeSamples :
         /\ Dispatch(old, new) = Classified(old, new)
         /\ IsForcedRestart(old, new)
              <=> (Classified(old, new) = "start" /\ old = {DEFAULT_VOLUME}))
  /\ [][\A p \in Procs :
          (procs[p].pc = "checkTab" /\ procs'[p] # procs[p])
            => LET c == Classified(procs[p].old, procs[p].vol) IN
               CASE c = "stop" -> procs'[p].pc = "hasDoc" /\ procs'[p].ctx = "stop"
                 [] c = "update" -> procs'[p].pc = "hasDoc" /\ procs'[p].ctx = "update"
                 [] c = "start" ->
                      /\ procs'[p].pc = "hasDoc"
                      /\ procs'[p].ctx = IF procs[p].old = {DEFAULT_VOLUME}
                                           THEN "forced" ELSE "setup"
                 [] c = "noop" ->
                      /\ procs'[p].pc = "done" /\ procs'[p].err = "none"
                      /\ activeTabOperations' = activeTabOperations]_vars

C14_Witness ==
  \E p \in Procs :
    /\ procs[p].pc = "pause" /\ procs[p].old = {DEFAULT_VOLUME}
    /\ procs[p].vol = 600 /\ procs[p].starts = 0

\* C15: a tab is in the lock set for as long as a transition of it is between
\* its lock acquisition and its end, the closure of the tab included.
C15_LockHeldThroughout ==
  \A t \in Tabs : InFlight(t) # {} => t \in activeTabOperations

\* C16: when a SET_VOLUME with a volume other than 100 is answered with
\* success for an open tab, the worker holds an entry for the tab whose gain
\* is max(0, v / 100).
C16_SuccessMeansCapturing ==
  [][\A p \in Procs :
       (Completes(p) /\ procs'[p].kind = "set" /\ procs'[p].err = "none"
        /\ procs'[p].vol # DEFAULT_VOLUME /\ tabExists'[procs'[p].tab])
         => /\ procs'[p].tab \in DOMAIN activeStreams'
            /\ activeStreams'[procs'[p].tab].gain = ClampedGain(procs'[p].vol)]_vars

\* The tab has an entry whose context is running.
LiveEntry(t) ==
  t \in DOMAIN activeStreams /\ activeStreams[t].state = "running"

\* C17: when an Update transition takes the worker's answer to its
\* updateVolume message while the offscreen document exists and the worker has
\* no live entry for the tab, it goes on with a full Start.
C17_UpdateFallsBack ==
  [][\A p \in Procs :
       (procs[p].pc = "sent" /\ procs[p].ctx = "update"
        /\ procs[p].kind \in {"set", "nav"}
        /\ procs[p].msg \in {"ok", "fail"} /\ procs'[p] # procs[p]
        /\ offscreenDoc /\ ~LiveEntry(procs[p].tab))
         => procs'[p].pc = "hasDoc" /\ procs'[p].ctx = "setup"]_vars

\* C18: an updateVolume for a tab without a live running entry changes
\* nothing at the worker, is answered without an error, and its answer is not
\* the answer of an update that was applied.
C18_UpdateReportsAbsence ==
  [][\A p \in Procs :
       (procs[p].msg = "sent" /\ MsgType(procs[p]) = "update"
        /\ procs'[p].msg \in {"ok", "fail"} /\ ~LiveEntry(procs[p].tab))
         => /\ activeStreams' = activeStreams /\ orphans' = orphans
            /\ procs'[p].msg # "ok"]_vars

\* C19: the step that closes the offscreen document is taken in a state where
\* no stored volume differs from 100 and no lock is held.
C19_CloseOnlyWhenUnneeded ==
  [][(offscreenDoc /\ ~offscreenDoc')
       => (~NeedsCapture /\ activeTabOperations = {})]_vars

\* C20: when handleVolumeChange is told its tab is gone (a tab already closed
\* when the check was issued), the tab has no stored non-default volume
\* afterwards and a flush is scheduled if one was removed; no lock is taken,
\* nothing is sent and the request ends without an error.
C20_TabGone ==
  [][\A p \in Procs :
       (procs[p].pc = "checkTab" /\ ~procs[p].snap /\ procs'[p] # procs[p])
         => /\ procs'[p].pc = "done" /\ procs'[p].err = "none"
            /\ procs'[p].msg = "none"
            /\ activeTabOperations' = activeTabOperations
            /\ procs[p].tab \notin Boosted(tabVolumes')
            /\ procs[p].tab \in Boosted(tabVolumes) => saveTimeout' > 0
            /\ \A t \in Tabs \ {procs[p].tab} :
                 Lookup(tabVolumes', t) = Lookup(tabVolumes, t)]_vars

\* C21: when a metadata lookup of GET_ACTIVE_TABS fails for a tab whose stored
\* volume differs from 100, the tab is removed from the store in that step and
\* is not in the list sent.
C21_LookupFailurePrunes ==
  [][\A t \in Tabs :
       (gat.pc = "lookups" /\ t \in gat.pending /\ t \notin gat'.pending
        /\ t \notin gat'.found /\ t \in Boosted(tabVolumes))
         => /\ t \notin DOMAIN tabVolumes'
            /\ t \notin DOMAIN gat'.result]_vars

\* C22: a Start or Update transition that fails goes on to the cleanup stop
\* before it ends; the cleanup sends stopCapture for the tab when the
\* offscreen document exists; and the error the transition ends with is the
\* one it failed with.
C22_FailureCleanup ==
  [][\A p \in Procs :
       procs[p].kind \in {"set", "nav"}
         => /\ (procs[p].err = "none" /\ procs'[p].err \notin {"none", "busy"}
                /\ procs'[p].kind = procs[p].kind)
                 => /\ ShouldBeCapturing(procs[p].vol)
                    /\ procs'[p].pc = "hasDoc" /\ procs'[p].ctx = "cleanup"
            /\ (procs[p].pc = "hasDoc" /\ procs[p].ctx = "cleanup"
                /\ procs'[p] # procs[p] /\ offscreenDoc)
                 => /\ procs'[p].pc = "sent" /\ procs'[p].msg = "sent"
                    /\ MsgType(procs'[p]) = "stop" /\ procs'[p].tab = procs[p].tab
                    /\ procs'[p].err = procs[p].err
            /\ (Completes(p) /\ procs'[p].err \notin {"none", "busy"})
                 => procs[p].ctx = "cleanup" /\ procs'[p].err = procs[p].err]_vars

C22_Witness ==
  \E p \in Procs :
    /\ procs[p].kind = "set" /\ procs[p].pc = "sent" /\ procs[p].ctx = "cleanup"
    /\ procs[p].msg = "ok" /\ procs[p].err = "audio"

\* C23: when the restart timer's callback has re-validated, it calls
\* handleVolumeChange only if the tab was there when it fired, the tab's lock
\* is not held and the stored volume differs from 100, and then with that
\* volume as a forced restart; otherwise it ends.  Either way the step sends
\* nothing, changes no stored volume and no lock, and ends with no error.
C23_TimerRevalidates ==
  [][\A p \in Procs :
       (procs[p].pc = "timerCheck" /\ procs'[p] # procs[p])
         => /\ UNCHANGED <<tabVolumes, activeTabOperations, activeStreams,
                           offscreenDoc>>
            /\ procs'[p].msg = "none" /\ procs'[p].err = "none"
            /\ IF procs[p].snap /\ tabExists[procs[p].tab]
                  /\ ~LockHeld(procs[p].tab)
                  /\ procs[p].tab \in Boosted(tabVolumes)
                 THEN /\ procs'[p].pc = "checkTab"
                      /\ procs'[p].vol = tabVolumes[procs[p].tab]
                      /\ procs'[p].old = {DEFAULT_VOLUME}
                 ELSE (procs'[p].pc = "checkTab"
                         => /\ procs[p].snap /\ ~LockHeld(procs[p].tab)
                            /\ procs[p].tab \in Boosted(tabVolumes)
                            /\ procs'[p].vol = tabVolumes[procs[p].tab])
                      /\ procs'[p].pc \in {"checkTab", "none"}]_vars

C23_Witness ==
  \E p \in Procs, q \in Procs :
    /\ procs[p].kind = "nav" /\ procs[p].pc = "checkTab"
    /\ procs[p].old = {DEFAULT_VOLUME}
    /\ procs[p].tab \in Boosted(tabVolumes)
    /\ q # p /\ procs[q].kind = "free"

\* C24: in every reachable state each tab has at most one pending restart
\* timeout, and it is the one onUpdatedRestartTimers refers to; a step that
\* adds a timeout for a tab starts from a state where the tab has a stored
\* volume other than 100, no lock is held for it and no timeout is pending.
C24_OneTimerPerTab ==
  /\ [](\A t \in Tabs : /\ restartTimeouts[t] <= 1
                         /\ restartTimeouts[t] = 1 <=> t \in onUpdatedRestartTimers)
  /\ [][\A t \in Tabs :
          restartTimeouts'[t] > restartTimeouts[t]
            => /\ t \in DOMAIN tabVolumes /\ tabVolumes[t] # DEFAULT_VOLUME
               /\ ~LockHeld(t)
               /\ restartTimeouts[t] = 0 /\ t \notin onUpdatedRestartTimers
               /\ restartTimeouts'[t] = 1 /\ t \in onUpdatedRestartTimers']_vars

\* A second timer of a tab is pending while the callback of its first one is
\* still waiting for the tab check.
C24_Witness ==
  \E t \in Tabs, p \in Procs :
    /\ restartTimeouts[t] = 1 /\ t \in onUpdatedRestartTimers
    /\ procs[p].kind = "nav" /\ procs[p].pc = "timerCheck" /\ procs[p].tab = t

\* The state after tab 1 was boosted to 200 and finished a navigation while
\* audible: its volume is stored, its pipeline runs in the offscreen document
\* and its restart timer is pending; the other tab was closed before.
NavInit ==
  /\ tabExists = [t \in Tabs |-> t = 1]
  /\ removedQ = {}
  /\ tabVolumes = With(<<>>, 1, 200)
  /\ activeTabOperations = {}
  /\ onUpdatedRestartTimers = {1}
  /\ restartTimeouts = [tb \in Tabs |-> IF tb = 1 THEN 1 ELSE 0]
  /\ closeOffscreenTimer = FALSE
  /\ closeChecks = 0
  /\ saveTimeout = 0
  /\ persisted = tabVolumes
  /\ offscreenDoc = TRUE
  /\ activeStreams = With(<<>>, 1, [gain |-> Gain(200), state |-> "running"])
  /\ orphans = [t \in Tabs |-> 0]
  /\ procs = [p \in Procs |-> FreeProc]
  /\ gat = IdleGat
  /\ inputs = 0

NavSpec == NavInit /\ [][Next]_vars

\* C25: once the onRemoved event of a closed tab has been handled no restart
\* timer is pending for the tab, and no timer callback of the tab starts a
\* restart transition from then on.
C25_TimerCancelled ==
  /\ [](\A t \in Tabs :
          (~tabExists[t] /\ t \notin removedQ)
            => restartTimeouts[t] = 0 /\ t \notin onUpdatedRestartTimers)
  /\ [][\A p \in Procs :
          (procs[p].kind = "nav" /\ procs[p].pc = "timerCheck"
           /\ procs'[p].pc = "checkTab")
            => (tabExists[procs[p].tab] \/ procs[p].tab \in removedQ)]_vars

\* The activation runs the start branch of handleVolumeChange as a forced
\* restart.
ForcedRestart(pr) ==
  /\ pr.kind \in {"set", "nav"}
  /\ Dispatch(pr.old, pr.vol) = "start"
  /\ IsForcedRestart(pr.old, pr.vol)

\* C26: when a forced restart invokes getMediaStreamId the worker holds no
\* entry for the tab: the explicit stop was handled before.
C26_StopBeforeAcquire ==
  [][\A p \in Procs :
       (ForcedRestart(procs[p]) /\ procs[p].pc # "getStream"
        /\ procs'[p].pc = "getStream")
         => procs[p].tab \notin DOMAIN activeStreams']_vars

\* --------------------------------- the coordinator next to a refusing worker
\* onMessage updateVolume answering {success: false}: the answer the listener
\* gives when the handling of the message throws.
WorkerRejects(p) ==
  LET pr == procs[p] IN
  /\ pr.pc = "sent" /\ pr.msg = "sent" /\ MsgType(pr) = "update"
  /\ procs' = [procs EXCEPT ![p] = [pr EXCEPT !.msg = "fail"]]
  /\ UNCHANGED <<workerVars, bgVars, envVars, gat, inputs>>

CoordNext ==
  \/ Next
  \/ \E p \in Procs : WorkerRejects(p)

CoordSpec ==
  Init /\ [][CoordNext]_vars

\* C27: an Update transition calls _startCaptureProcess at most once as a
\* fallback, and it ends with an error only after that one call failed.
C27_OneFallback ==
  /\ [](\A p \in Procs : procs[p].fallbacks <= 1)
  /\ [][\A p \in Procs :
          (Completes(p) /\ procs[p].kind \in {"set", "nav"}
           /\ Dispatch(procs[p].old, procs[p].vol) = "update"
           /\ procs'[p].err \notin {"none", "busy"})
            => procs[p].fallbacks = 1]_vars

\* C28: a start call that fails while it holds a stream and an AudioContext
\* has released both when its error is returned, and activeStreams has no
\* entry for the tab then; no call that has answered holds live resources.
C28_FailedStartReleases ==
  /\ [](\A p \in Procs : procs[p].msg \in {"ok", "fail"} => procs[p].held # "live")
  /\ [][\A p \in Procs :
          (procs[p].pc = "sent" /\ MsgType(procs[p]) = "start"
           /\ procs[p].msg \in {"gum", "resume"} /\ procs'[p].msg = "fail")
            => /\ procs[p].held = "live" => procs'[p].held = "released"
               /\ procs[p].tab \notin DOMAIN activeStreams'
               /\ LivePipelines(procs[p].tab)' = LivePipelines(procs[p].tab)]_vars

\* A start call has failed after it acquired its stream and its context, next
\* to an entry another call had stored for the tab.
C28_Witness ==
  \E p \in Procs :
    /\ MsgType(procs[p]) = "start" /\ procs[p].msg = "fail"
    /\ procs[p].held = "released"
    /\ procs[p].tab \notin DOMAIN activeStreams /\ orphans[procs[p].tab] > 0

\* ----------------------------------------- handleStopCapture step by step
\* The steps of handleStopCapture on an existing entry, in the order of its
\* statements.
StopOrder_entryFirst ==
  <<"entry", "tracks", "limiter", "gain", "source", "context">>

StopOrder ==
  <<"tracks", "limiter", "gain", "source", "context", "entry">>

\* What one step does to the resources of the entry: track.stop() on the
\* stream's tracks, disconnect() on a node, close() on a context that is not
\* closed yet (it is closing until the promise settles).
StopEffect(e, s) ==
  CASE s = "tracks" -> [e EXCEPT !.tracks = "stopped"]
    [] s = "limiter" -> [e EXCEPT !.limiterNode = "disconnected"]
    [] s = "gain" -> [e EXCEPT !.gainNode = "disconnected"]
    [] s = "source" -> [e EXCEPT !.source = "disconnected"]
    [] s = "context" -> IF e.state = "closed" THEN e ELSE [e EXCEPT !.state = "closing"]

\* A handleStopCapture call is between its first and its last step.
Stopping ==
  \E p \in Procs : procs[p].step > 0

\* An entry as handleStartOrUpdateCapture stores it, with the state its stream
\* and its context are in when the stop arrives.
StoredEntry(v, tracks, state) ==
  [gain |-> Gain(v), state |-> state, tracks |-> tracks,
   limiterNode |-> "connected", gainNode |-> "connected", source |-> "connected"]

StopInit ==
  /\ tabExists = [t \in Tabs |-> TRUE]
  /\ removedQ = {}
  /\ tabVolumes = <<>>
  /\ activeTabOperations = {}
  /\ onUpdatedRestartTimers = {}
  /\ restartTimeouts = [tb \in Tabs |-> 0]
  /\ closeOffscreenTimer = FALSE
  /\ closeChecks = 0
  /\ saveTimeout = 0
  /\ persisted = tabVolumes
  /\ offscreenDoc = TRUE
  /\ \E held \in SUBSET Tabs :
       activeStreams \in [held -> {StoredEntry(200, tr, st) :
                                     tr \in {"live", "ended"},
                                     st \in {"running", "suspended", "closed"}}]
  /\ orphans = [t \in Tabs |-> 0]
  /\ procs = [p \in Procs |-> FreeProc]
  /\ gat = IdleGat
  /\ inputs = 0

\* One statement of a handleStopCapture call.  The function has no await: it
\* starts when no other call of it is running and nothing else runs before
\* its last step.  Without an entry it returns at once.
StopStep(p) ==
  LET pr == procs[p]
      s == StopOrder[pr.step + 1]
      last == pr.step + 1 = Len(StopOrder)
  IN
  /\ pr.pc = "sent" /\ pr.msg = "sent" /\ MsgType(pr) = "stop"
  /\ pr.step = 0 => ~Stopping
  /\ IF pr.step = 0 /\ pr.tab \notin DOMAIN activeStreams
       THEN /\ procs' = [procs EXCEPT ![p] = [pr EXCEPT !.msg = "ok"]]
            /\ UNCHANGED activeStreams
       ELSE /\ activeStreams' =
                 IF s = "entry" THEN Without(activeStreams, pr.tab)
                 ELSE IF pr.tab \in DOMAIN activeStreams
                   THEN [activeStreams EXCEPT ![pr.tab] = StopEffect(@, s)]
                 ELSE activeStreams
            /\ procs' = [procs EXCEPT ![p] =
                           IF last THEN [pr EXCEPT !.msg = "ok", !.step = 0]
                           ELSE [pr EXCEPT !.step = @ + 1]]
  /\ UNCHANGED <<offscreenDoc, orphans, bgVars, envVars, gat, inputs>>

StopNext ==
  \/ \E type \in {"update", "stop"}, t \in Tabs, v \in Volumes : ClientSend(type, t, v)
  \/ \E p \in Procs : ClientRecv(p)
  \/ \E p \in Procs : ~Stopping /\ WorkerUpdate(p)
  \/ \E p \in Procs : StopStep(p)

StopSpec ==
  StopInit /\ [][StopNext]_vars

\* The entry has been touched by a stop and is still in activeStreams.
TornDown(e) ==
  \/ e.tracks = "stopped" \/ e.state = "closing"
  \/ "disconnected" \in {e.limiterNode, e.gainNode, e.source}

\* C29: handleStopCapture on an existing entry stops the tracks, disconnects
\* limiter, gain and source, closes the context and removes the entry, in that
\* order: in every state each step done implies the ones before it, the entry
\* is removed only when the context is closed or closing, and no handler
\* takes up a message in a state in which an entry is partly torn down.
C29_StopOrder ==
  /\ [](\A t \in DOMAIN activeStreams :
          LET e == activeStreams[t] IN
          /\ e.limiterNode = "disconnected" => e.tracks = "stopped"
          /\ e.gainNode = "disconnected" => e.limiterNode = "disconnected"
          /\ e.source = "disconnected" => e.gainNode = "disconnected"
          /\ e.state = "closing" => e.source = "disconnected")
  /\ [][\A t \in Tabs :
          (t \in DOMAIN activeStreams /\ t \notin DOMAIN activeStreams')
            => LET e == activeStreams[t] IN
               /\ e.tracks = "stopped"
               /\ {e.limiterNode, e.gainNode, e.source} = {"disconnected"}
               /\ e.state \in {"closing", "closed"}]_vars
  /\ [][\A p \in Procs :
          (procs[p].msg = "sent" /\ procs[p].step = 0 /\ procs'[p] # procs[p])
            => \A t \in DOMAIN activeStreams : ~TornDown(activeStreams[t])]_vars

\* A stop call on an existing entry has done every step but the last, the
\* context is closing and the entry still there, while another message waits
\* to be taken up.
C29_Witness ==
  \E p \in Procs, q \in Procs :
    /\ procs[p].step = Len(StopOrder) - 1
    /\ procs[p].tab \in DOMAIN activeStreams
    /\ activeStreams[procs[p].tab].state = "closing"
    /\ activeStreams[procs[p].tab].tracks = "stopped"
    /\ q # p /\ procs[q].msg = "sent" /\ procs[q].tab = procs[p].tab

\* C30: every change of tabVolumes leaves a flush timeout pending, at most one
\* flush timeout is pending at any time, and once the store stops changing
\* the record in chrome.storage.local equals it from some point on.
C30_DebouncedPersistence ==
  /\ [](saveTimeout <= 1)
  /\ [][tabVolumes' # tabVolumes => saveTimeout' = 1]_vars
  /\ <>[](persisted = tabVolumes)

\* C31: a request is rejected as busy only when the lock of its own tab is
\* held, and a step of a transition of one tab (in the background script or at
\* the worker) leaves the stored volume, the lock and the worker's entry and
\* pipelines of every other tab as they are.
C31_CrossTabIndependence ==
  [][\A p \in Procs :
       (procs[p].kind \in {"set", "nav"} /\ procs'[p] # procs[p]
        /\ ~(offscreenDoc /\ ~offscreenDoc'))
         => /\ (procs[p].err # "busy" /\ procs'[p].err = "busy")
                 => procs[p].tab \in activeTabOperations
            /\ \A t \in Tabs \ {procs[p].tab} :
                 /\ Lookup(tabVolumes', t) = Lookup(tabVolumes, t)
                 /\ Lookup(activeStreams', t) = Lookup(activeStreams, t)
                 /\ orphans'[t] = orphans[t]
                 /\ t \in activeTabOperations' <=> t \in activeTabOperations]_vars

\* Transitions of two tabs hold their locks at the same time, one of them
\* with its pipeline stored at the worker.
C31_Witness ==
  \E p \in Procs, q \in Procs :
    /\ procs[p].kind = "set" /\ procs[q].kind = "set"
    /\ procs[p].tab # procs[q].tab
    /\ procs[p].pc \in PostLock /\ procs[q].pc = "sent" /\ procs[q].msg = "ok"
    /\ {procs[p].tab, procs[q].tab} \subseteq activeTabOperations
    /\ procs[q].tab \in DOMAIN activeStreams

\* ------------------------------------------- requests with any numeric volume
\* Volumes the SET_VOLUME handler accepts: its parameter check passes every
\* value with typeof volume === 'number' that is not NaN, whatever its size.
NumericVolumes ==
  {-100, DEFAULT_VOLUME, 700}

RangeNext ==
  \/ \E t \in Tabs, v \in NumericVolumes : SetVolumeRequest(t, v)
  \/ GetActiveTabsRequest
  \/ TabEvent
  \/ Background
  \/ Worker

RangeSpec ==
  Init /\ [][RangeNext]_vars

\* C32: every value in the Volume Store is an integer from 0 to 600, in every
\* reachable state, whatever numeric volumes the SET_VOLUME requests carry.
C32_StoreInRange ==
  \A t \in DOMAIN tabVolumes : tabVolumes[t] \in 0..600

\* C33: volume 100 is stored as the absence of the key: the Volume Store and
\* the persisted record never hold a key with the value 100, and when a
\* SET_VOLUME with volume 100 ends with success the tab has no key.
C33_DefaultIsAbsent ==
  /\ [](\A t \in DOMAIN tabVolumes : tabVolumes[t] # DEFAULT_VOLUME)
  /\ [](\A t \in DOMAIN persisted : persisted[t] # DEFAULT_VOLUME)
  /\ [][\A p \in Procs :
          (Completes(p) /\ procs'[p].kind = "set" /\ procs'[p].err = "none"
           /\ procs'[p].vol = DEFAULT_VOLUME)
            => procs'[p].tab \notin DOMAIN tabVolumes']_vars

\* --------------------------------------------- the older background script
\* onMessage SET_VOLUME of the older script, up to the first await of its
\* handleVolumeChange: the new volume is written and a flush scheduled before
\* the call.
OldSetVolumeRequest(t, v) ==
  /\ inputs < MaxInputs
  /\ HasFree
  /\ inputs' = inputs + 1
  /\ LET old == Lookup(tabVolumes, t)
         pr == [FreeProc EXCEPT !.kind = "oldset", !.tab = t, !.vol = v, !.old = old]
     IN IF old = {v} /\ ~LockHeld(t)
          THEN /\ procs' = [procs EXCEPT ![NewSlot] = Done(pr, "none")]
               /\ UNCHANGED <<tabVolumes, saveTimeout>>
          ELSE /\ tabVolumes' = With(tabVolumes, t, v)
               /\ saveTimeout' = SaveVolumes(saveTimeout)
               /\ procs' = [procs EXCEPT ![NewSlot] =
                              [pr EXCEPT !.pc = "checkTab", !.snap = tabExists[t]]]
  /\ UNCHANGED <<activeTabOperations, onUpdatedRestartTimers, restartTimeouts,
                 closeOffscreenTimer, closeChecks, workerVars, envVars, gat>>

\* chrome.tabs.onUpdated of the older script: the restart is scheduled with a
\* callback that closes over currentVolume, the volume stored now.
OldOnUpdated(t) ==
  /\ inputs < MaxInputs
  /\ HasFree
  /\ tabExists[t]
  /\ ~LockHeld(t)
  /\ t \notin onUpdatedRestartTimers
  /\ t \in DOMAIN tabVolumes /\ tabVolumes[t] # DEFAULT_VOLUME
  /\ inputs' = inputs + 1
  /\ onUpdatedRestartTimers' = onUpdatedRestartTimers \cup {t}
  /\ restartTimeouts' = [ClearTimeout(restartTimeouts, onUpdatedRestartTimers, t)
                          EXCEPT ![t] = @ + 1]
  /\ procs' = [procs EXCEPT ![NewSlot] =
                 [FreeProc EXCEPT !.kind = "oldnav", !.pc = "timer", !.tab = t,
                                  !.vol = tabVolumes[t]]]
  /\ UNCHANGED <<tabVolumes, activeTabOperations, closeOffscreenTimer, closeChecks,
                 saveTimeout, workerVars, envVars, gat>>

\* The older restart callback: its reference is deleted, the lock is tested,
\* and handleVolumeChange(tabId, currentVolume, DEFAULT_VOLUME) runs up to its
\* tab check.
OldRestartTimerFire(p) ==
  LET pr == procs[p] IN
  /\ pr.kind = "oldnav" /\ pr.pc = "timer"
  /\ restartTimeouts' = [restartTimeouts EXCEPT ![pr.tab] = @ - 1]
  /\ onUpdatedRestartTimers' = onUpdatedRestartTimers \ {pr.tab}
  /\ procs' = [procs EXCEPT ![p] =
                 IF LockHeld(pr.tab) THEN FreeProc
                 ELSE [pr EXCEPT !.pc = "checkTab", !.old = {DEFAULT_VOLUME},
                                 !.snap = tabExists[pr.tab]]]
  /\ UNCHANGED <<tabVolumes, activeTabOperations, closeOffscreenTimer, closeChecks,
                 saveTimeout, workerVars, envVars, gat, inputs>>

\* chrome.tabs.onRemoved of the older script: lock cleared, volume entry
\* deleted and save scheduled, stop sent for a capturing tab; the restart
\* timer is left alone.
OldOnRemoved(t) ==
  LET stored == t \in DOMAIN tabVolumes
      stop == stored /\ WasCapturing(tabVolumes, t)
  IN
  /\ t \in removedQ
  /\ stop => HasFree
  /\ removedQ' = removedQ \ {t}
  /\ activeTabOperations' = activeTabOperations \ {t}
  /\ tabVolumes' = Without(tabVolumes, t)
  /\ saveTimeout' = IF stored THEN SaveVolumes(saveTimeout) ELSE saveTimeout
  /\ IF stop
       THEN /\ procs' = [procs EXCEPT ![NewSlot] =
                           [FreeProc EXCEPT !.kind = "removed", !.pc = "hasDoc",
                                            !.ctx = "removed", !.tab = t]]
            /\ UNCHANGED closeOffscreenTimer
       ELSE /\ closeOffscreenTimer' = TRUE
            /\ UNCHANGED procs
  /\ UNCHANGED <<onUpdatedRestartTimers, restartTimeouts, closeChecks, workerVars,
                 tabExists, persisted, gat, inputs>>

OldNext ==
  \/ \E t \in Tabs, v \in Volumes : OldSetVolumeRequest(t, v)
  \/ \E t \in Tabs : OldOnUpdated(t)
  \/ \E p \in Procs : OldRestartTimerFire(p)
  \/ \E t \in Tabs : CloseTab(t)
  \/ \E t \in Tabs : OldOnRemoved(t)
  \/ \E p \in Procs, a \in BOOLEAN : CheckTabResume(p, a)
  \/ \E p \in Procs : HasDocResume(p)
  \/ \E p \in Procs, ok \in BOOLEAN : CreateResume(p, ok)
  \/ \E p \in Procs, ok \in BOOLEAN : GetStreamResume(p, ok)
  \/ \E p \in Procs : PauseResume(p)
  \/ \E p \in Procs : ReplyResume(p)
  \/ \E p \in Procs : Reap(p)
  \/ CloseTimerFire
  \/ CloseCheckResume
  \/ \E ok \in BOOLEAN : SaveFire(ok)
  \/ Worker

\* The older script starts with an empty store; one tab is open, the other
\* was closed before.
OldInit ==
  /\ tabExists = [t \in Tabs |-> t = 1]
  /\ removedQ = {}
  /\ tabVolumes = <<>>
  /\ activeTabOperations = {}
  /\ onUpdatedRestartTimers = {}
  /\ restartTimeouts = [tb \in Tabs |-> 0]
  /\ closeOffscreenTimer = FALSE
  /\ closeChecks = 0
  /\ saveTimeout = 0
  /\ persisted = tabVolumes
  /\ offscreenDoc = FALSE
  /\ activeStreams = <<>>
  /\ orphans = [t \in Tabs |-> 0]
  /\ procs = [p \in Procs |-> FreeProc]
  /\ gat = IdleGat
  /\ inputs = 0

OldSpec ==
  OldInit /\ [][OldNext]_vars

\* The volume a stored-or-absent value stands for.
ValueOf(old) ==
  IF old = {} THEN DEFAULT_VOLUME ELSE CHOOSE v \in old : TRUE

\* C34: in the older script, when a SET_VOLUME ends with an error response,
\* the busy one included, the tab's in-memory volume is the one it had when
\* the request arrived.
C34_ErrorReverts ==
  [][\A p \in Procs :
       (Completes(p) /\ procs'[p].kind = "oldset" /\ procs'[p].err # "none")
         => VolumeOf(tabVolumes', procs'[p].tab) = ValueOf(procs'[p].old)]_vars

\* C35: in the older script, a restart callback that goes on to
\* handleVolumeChange does so only for a tab whose stored volume is there and
\* differs from 100 at that moment, and with that volume.
C35_OldTimerRevalidates ==
  [][\A p \in Procs :
       (procs[p].kind = "oldnav" /\ procs[p].pc = "timer"
        /\ procs'[p].pc = "checkTab")
         => /\ procs[p].tab \in Boosted(tabVolumes)
            /\ procs'[p].vol = tabVolumes[procs[p].tab]]_vars

\* C36: the step that rejects a request as busy changes nothing but the
\* request itself: the lock set (which keeps the tab), the store, both timers
\* of the background script, the worker's state and every other activation
\* stay as they are, and the rejected request has sent no message.
C36_BusyChangesNothing ==
  [][\A p \in Procs :
       (Completes(p) /\ procs'[p].err = "busy")
         => /\ UNCHANGED <<bgVars, workerVars>>
            /\ procs[p].tab \in activeTabOperations'
            /\ procs[p].starts = 0 /\ procs[p].msg = "none" /\ procs'[p].msg = "none"
            /\ \A q \in Procs \ {p} : procs'[q] = procs[q]]_vars

\* A request was rejected as busy while the transition that holds the lock
\* waits for the worker's answer to its command.
C36_Witness ==
  \E p \in Procs, q \in Procs :
    /\ procs[p].pc = "done" /\ procs[p].err = "busy"
    /\ procs[q].tab = procs[p].tab /\ procs[q].kind \in {"set", "nav"}
    /\ procs[q].pc = "sent" /\ procs[q].msg = "sent"
    /\ procs[p].tab \in activeTabOperations

\* C37: when a SET_VOLUME transition acquires the lock, the oldVolume it is
\* classified against is the tab's stored volume at that moment (an absent
\* value and 100 taken as the same volume).
C37_OldVolumeFresh ==
  [][\A p \in Procs :
       (procs[p].kind = "set" /\ procs[p].pc = "checkTab"
        /\ procs'[p].pc \in PostLock)
         => ValueOf(procs[p].old) = VolumeOf(tabVolumes, procs[p].tab)]_vars

\* C38: when a restart transition that took the lock ends and its tab is
\* still open, the tab's stored volume is the one that was stored when it took
\* the lock.
C38_RestartKeepsVolume ==
  [][\A p \in Procs :
       (Completes(p) /\ procs[p].kind = "nav" /\ procs[p].pc \in PostLock
        /\ tabExists[procs[p].tab])
         => Lookup(tabVolumes', procs[p].tab) = procs[p].atLock]_vars

\* C39: once the onRemoved event of a closed tab has been handled, the Volume
\* Store holds no entry for the tab, in every state from then on.
C39_ClosedTabStaysOut ==
  \A t \in Tabs : (~tabExists[t] /\ t \notin removedQ) => t \notin DOMAIN tabVolumes

\* No request, restart or closure handler of tab t is under way and no
\* closure event of it waits to be handled.
Quiet(t) ==
  /\ \A p \in Procs : procs[p].tab = t => procs[p].pc \in {"none", "done"}
  /\ t \notin removedQ

\* C40: whenever nothing is under way for a tab, an entry of the tab at the
\* worker comes with a stored volume other than 100.
C40_NoOrphanPipelines ==
  \A t \in Tabs :
    (Quiet(t) /\ t \in DOMAIN activeStreams) => t \in Boosted(tabVolumes)

====
